---- MODULE Spec2Model ----
(***************************************************************************)
(* The subordinate controller of the debugger (src/debugger/subordinate.rs) *)
(* driving one traced child through the OS layer (src/sys/mod.rs).          *)
(*                                                                         *)
(* The child is a byte-addressed memory holding a toy program, a program   *)
(* counter and a stack pointer.  Addresses are the indices 1..Len(mem);    *)
(* address 0 and everything outside that range is unmapped.  A machine     *)
(* word is the sequence of its W bytes in memory order (x86-64 is          *)
(* little-endian, so byte 1 is the low byte of the usize).                 *)
(***************************************************************************)
EXTENDS Integers, Sequences, FiniteSets, TLC

VARIABLES
    phase,        \* "init" | "live" | "err" | "panic": the debugger process
    registers,    \* Subordinate.registers: [rip, rsp]
    stack,        \* Subordinate.stack: sequence of words
    wait_status,  \* Subordinate.wait_status: [tag, val]
    breakpoints,  \* Subordinate.breakpoints: address -> saved word
    mem,          \* child memory: sequence of bytes
    cpc,          \* child program counter
    csp,          \* child stack pointer
    cstate,       \* "none" | "stopped" | "running" | "exited" | "killed"
    forks,        \* number of processes created by fork()
    childret,     \* what spawn returned in the forked copy of the caller
    last,         \* the last operation: what it was, what it returned, what it did,
                  \* where the child stopped, which kernel request was failed
    image,        \* child memory as loaded by execvp
    stopStack,    \* the child's stack window when the last stop was observed by wait()
    armed         \* live entry -> word that peek returned just before it was created

vars == <<phase, registers, stack, wait_status, breakpoints, mem, cpc, csp,
          cstate, forks, childret, last, image, stopStack, armed>>

---------------------------------------------------------------------------
\* Program constants

\* std::mem::size_of::<usize>() on x86-64
W == 8

\* the stack window read by fetch_state
StackWords == 16

\* the trap opcode poked by breakpoint
TRAP == 204

---------------------------------------------------------------------------
\* Bounds of the model

\* bytes of child memory mapped at addresses 1..MemLen
MemLen == 144

\* breakpoint addresses tried: 0..MaxBpAddr
MaxBpAddr == 2

\* breakpoints installed at one time
MaxBps == 2

\* instructions a cont() may run before the model stops following the child
MaxRun == 4

\* exit codes 0..MaxExit
MaxExit == 1

\* read_bytes is tried from the addresses 1..MaxFrom
MaxFrom == 2

\* and with the sizes 0..MaxSize
MaxSize == 17

\* longest target of a break command, besides the symbol names
MaxTargetLen == 2

---------------------------------------------------------------------------
\* The toy instruction set of the child (one-byte opcodes, x86 encodings)

NOP == 144
RET == 195
JMP == 235

\* rel8 operand of a short jump, sign-extended
Rel8(b) == IF b < 128 THEN b ELSE b - 256

Pad(code) == code \o [i \in 1..(MemLen - Len(code)) |-> 0]

\* the lowest stack pointer whose window lies clear of the code and of every
\* word a breakpoint can touch
ClearSp == MemLen - W * StackWords + 1

\* The toy executables, each with its entry point and the stack the loader
\* gives it: straight-line code with the stack clear of the code and with
\* the stack over the code, a loop entered in its middle, and a jump to
\* address 0.
Toys ==
    { [code |-> <<NOP, NOP, NOP, RET>>, entry |-> 1, sp |-> ClearSp],
      [code |-> <<NOP, NOP, NOP, RET>>, entry |-> 1, sp |-> 1],
      [code |-> <<NOP, NOP, JMP, 252, RET>>, entry |-> 2, sp |-> ClearSp],
      [code |-> <<NOP, JMP, 252, RET>>, entry |-> 1, sp |-> ClearSp] }

Mapped(m, a) == a >= 1 /\ a <= Len(m)

\* One instruction of the child at pc: what happens and where pc ends up.
Exec(m, pc) ==
    IF ~Mapped(m, pc) THEN [ev |-> "segv", pc |-> pc]
    ELSE IF m[pc] = NOP THEN [ev |-> "ok", pc |-> pc + 1]
    ELSE IF m[pc] = TRAP THEN [ev |-> "trap", pc |-> pc + 1]
    ELSE IF m[pc] = RET THEN [ev |-> "exit", pc |-> pc]
    ELSE IF m[pc] = JMP THEN
        IF Mapped(m, pc + 1)
        THEN [ev |-> "ok", pc |-> pc + 2 + Rel8(m[pc + 1])]
        ELSE [ev |-> "segv", pc |-> pc]
    ELSE [ev |-> "ill", pc |-> pc]

\* Up to k instructions from pc, stopping at the first one that raises an
\* event: [ev, pc, n, at] with n instructions retired and at the address of
\* the last instruction attempted.
RECURSIVE Run(_, _, _)
Run(m, pc, k) ==
    IF k = 0 THEN [ev |-> "ok", pc |-> pc, n |-> 0, at |-> pc, raw |-> <<>>]
    ELSE LET e == Exec(m, pc) IN
         IF e.ev = "ok"
         THEN LET r == Run(m, e.pc, k - 1) IN
              [r EXCEPT !.n = r.n + 1, !.at = IF k = 1 THEN pc ELSE r.at]
         ELSE [ev |-> e.ev, pc |-> e.pc,
               n |-> IF e.ev = "trap" THEN 1 ELSE 0, at |-> pc, raw |-> <<>>]

---------------------------------------------------------------------------
\* The tracing requests of the OS layer (sys::ptrace) as the kernel serves them

\* a tracing request reaches the child only while it is in a trace stop
Traceable(s) == s.cstate = "stopped"

PeekOk(s, addr) == Traceable(s) /\ addr >= 1 /\ addr + W - 1 <= Len(s.mem)

PeekWord(m, addr) == [i \in 1..W |-> m[addr + i - 1]]

PokeWord(m, addr, w) ==
    [i \in 1..Len(m) |-> IF i >= addr /\ i < addr + W THEN w[i - addr + 1] ELSE m[i]]

\* the words of the stack window at sp, where they are mapped
Window(m, sp) ==
    [i \in 1..StackWords |->
        IF sp + W * (i - 1) >= 1 /\ sp + W * i - 1 <= Len(m)
        THEN PeekWord(m, sp + W * (i - 1)) ELSE <<>>]

\* the raw status words wait() can be handed, and the child they leave behind
ChildAfter(raw) ==
    CASE raw.kind = "stopped" -> "stopped"
      [] raw.kind = "exited" -> "exited"
      [] raw.kind = "signaled" -> "killed"
      [] OTHER -> "running"

\* What one PTRACE_SINGLESTEP can lead to: the instruction at pc runs (or
\* faults), the child is killed from outside, or the status word is one of
\* the kinds wait() decodes as Continued or Unknown.
StepOutcomes(m, pc) ==
    LET r == Run(m, pc, 1)
        sig == CASE r.ev = "segv" -> "SIGSEGV" [] r.ev = "ill" -> "SIGILL"
                 [] OTHER -> "SIGTRAP"
    IN  (IF r.ev = "exit"
         THEN {[r EXCEPT !.raw = [kind |-> "exited", val |-> c]] : c \in 0..MaxExit}
         ELSE {[r EXCEPT !.raw = [kind |-> "stopped", val |-> sig]]})
        \cup {[ev |-> "kill", pc |-> pc, n |-> 0, at |-> pc,
               raw |-> [kind |-> "signaled", val |-> "SIGKILL"]]}
        \cup (IF r.ev = "ok"
              THEN {[r EXCEPT !.raw = [kind |-> k, val |-> 0]] :
                        k \in {"continued", "other"}}
              ELSE {})

\* What one PTRACE_CONT can lead to: the child runs to its first trap,
\* fault or exit, or a signal from outside stops it after k instructions.
ContOutcomes(m, pc) ==
    LET r == Run(m, pc, MaxRun)
        sig == CASE r.ev = "segv" -> "SIGSEGV" [] r.ev = "ill" -> "SIGILL"
                 [] OTHER -> "SIGTRAP"
    IN  (CASE r.ev = "exit" ->
                {[r EXCEPT !.raw = [kind |-> "exited", val |-> c]] : c \in 0..MaxExit}
           [] r.ev = "ok" -> {}
           [] OTHER -> {[r EXCEPT !.raw = [kind |-> "stopped", val |-> sig]]})
        \cup {[Run(m, pc, k) EXCEPT !.ev = "sig",
                                    !.raw = [kind |-> "stopped", val |-> "SIGINT"]] :
                 k \in {j \in 0..MaxRun : Run(m, pc, j).ev = "ok" /\ Run(m, pc, j).n = j}}
        \cup {[ev |-> "kill", pc |-> pc, n |-> 0, at |-> pc,
               raw |-> [kind |-> "signaled", val |-> "SIGKILL"]]}
        \cup {[Run(m, pc, 0) EXCEPT !.raw = [kind |-> k, val |-> 0]] :
                  k \in {"continued", "other"}}

---------------------------------------------------------------------------
\* src/sys/mod.rs

\* wait(): the typed status decoded from the raw status word
Wait(raw) ==
    IF raw.kind = "stopped" THEN [tag |-> "Stopped", val |-> raw.val]
    ELSE IF raw.kind = "exited" THEN [tag |-> "Exited", val |-> raw.val]
    ELSE IF raw.kind = "continued" THEN [tag |-> "Continued", val |-> 0]
    ELSE IF raw.kind = "signaled" THEN [tag |-> "Signaled", val |-> raw.val]
    ELSE [tag |-> "Unknwon", val |-> raw.val]

\* execvp(): the domain error of an empty command, else the image is replaced
Execvp(cmd) == IF Len(cmd) = 0 THEN "Domain" ELSE "Ok"

---------------------------------------------------------------------------
\* src/debugger/subordinate.rs
\*
\* A handler works on a record s of the controller's fields and the child,
\* and leaves in s.calls the kernel requests it issued, in s.ok whether it
\* returned success.  f names the kernel request that is made to fail
\* ("none": only the failures the child's state itself causes).

Cur ==
    [phase |-> phase, registers |-> registers, stack |-> stack,
     wait_status |-> wait_status, breakpoints |-> breakpoints, mem |-> mem,
     cpc |-> cpc, csp |-> csp, cstate |-> cstate, stopStack |-> stopStack,
     armed |-> armed, hit |-> <<>>, calls |-> <<>>, ok |-> TRUE, err |-> "", val |-> <<>>,
     fault |-> "none"]

Fail(s, e) == [s EXCEPT !.ok = FALSE, !.err = e]

Call(s, name, addr) == [s EXCEPT !.calls = Append(@, <<name, addr>>)]

Without(bp, addr) == [a \in (DOMAIN bp) \ {addr} |-> bp[a]]

With(bp, addr, data) == [a \in (DOMAIN bp) \cup {addr} |-> IF a = addr THEN data ELSE bp[a]]

\* data & (usize::max_value() - 255) | 0xcc
TrapWord(data) == [data EXCEPT ![1] = TRAP]

\* read_words: count peeks at from, from + W, ...; the first failing peek
\* ends it with that error
ReadWords(s, from, count, f) ==
    LET bad == {i \in 0..(count - 1) : ~PeekOk(s, from + W * i) \/ f = "peek"}
        stop == IF bad = {} THEN count - 1
                ELSE CHOOSE i \in bad : \A j \in bad : i <= j
        s1 == [s EXCEPT !.calls = @ \o [i \in 1..(stop + 1) |-> <<"peek", from + W * (i - 1)>>]]
    IN  IF bad = {}
        THEN [s1 EXCEPT !.val = [i \in 1..count |-> PeekWord(s.mem, from + W * (i - 1))]]
        ELSE Fail(s1, "Errno")

\* handle_breakpoint that forgets to write the rewound registers back
HandleBreakpoint_NoSetregs(s, f, ovf) ==
    IF s.registers.rip = 0 /\ ovf = "panic" THEN [Fail(s, "panic") EXCEPT !.phase = "panic"]
    ELSE
    LET addr == s.registers.rip - 1 IN
    IF addr \notin DOMAIN s.breakpoints THEN s
    ELSE
    LET data == s.breakpoints[addr]
        s1 == Call([s EXCEPT !.breakpoints = Without(@, addr),
                             !.registers.rip = addr,
                             !.armed = Without(@, addr),
                             !.hit = <<addr, s.armed[addr]>>], "poke", addr)
    IN  IF ~PeekOk(s1, addr) \/ f = "poke" THEN Fail(s1, "Errno")
        ELSE [s1 EXCEPT !.mem = PokeWord(@, addr, data)]

\* handle_breakpoint that rewinds the pc at every stop
HandleBreakpoint_AnyStop(s, f, ovf) ==
    IF s.registers.rip = 0 /\ ovf = "panic"
    THEN [Fail(s, "panic") EXCEPT !.phase = "panic"]
    ELSE
    LET addr == s.registers.rip - 1 IN
    IF addr \notin DOMAIN s.breakpoints
    THEN LET s2 == Call([s EXCEPT !.registers.rip = addr], "setregs", 0)
         IN  [s2 EXCEPT !.cpc = s2.registers.rip]
    ELSE
    LET data == s.breakpoints[addr]
        s1 == Call([s EXCEPT !.breakpoints = Without(@, addr),
                             !.registers.rip = addr,
                             !.armed = Without(@, addr),
                             !.hit = <<addr, s.armed[addr]>>], "poke", addr)
    IN  IF ~PeekOk(s1, addr) \/ f = "poke" THEN Fail(s1, "Errno")
        ELSE
        LET s2 == Call([s1 EXCEPT !.mem = PokeWord(@, addr, data)], "setregs", 0)
        IN  IF ~Traceable(s2) \/ f = "setregs" THEN Fail(s2, "Errno")
            ELSE [s2 EXCEPT !.cpc = s2.registers.rip, !.csp = s2.registers.rsp]

\* handle_breakpoint: ovf is what the build makes of rip - 1 at rip = 0
HandleBreakpoint(s, f, ovf) ==
    IF s.registers.rip = 0 /\ ovf = "panic" THEN [Fail(s, "panic") EXCEPT !.phase = "panic"]
    ELSE
    LET addr == s.registers.rip - 1 IN
    IF addr \notin DOMAIN s.breakpoints THEN s
    ELSE
    LET data == s.breakpoints[addr]
        s1 == Call([s EXCEPT !.breakpoints = Without(@, addr),
                             !.registers.rip = addr,
                             !.armed = Without(@, addr),
                             !.hit = <<addr, s.armed[addr]>>], "poke", addr)
    IN  IF ~PeekOk(s1, addr) \/ f = "poke" THEN Fail(s1, "Errno")
        ELSE
        LET s2 == Call([s1 EXCEPT !.mem = PokeWord(@, addr, data)], "setregs", 0)
        IN  IF ~Traceable(s2) \/ f = "setregs" THEN Fail(s2, "Errno")
            ELSE [s2 EXCEPT !.cpc = s2.registers.rip, !.csp = s2.registers.rsp]

\* fetch_state that keeps the registers of the previous stop
FetchState_NoGetregs(s, raw, f, ovf) ==
    LET s0 == Call(s, "wait", 0) IN
    IF f = "wait" THEN Fail(s0, "Errno")
    ELSE
    LET s1 == [s0 EXCEPT !.wait_status = Wait(raw),
                         !.stopStack = IF raw.kind = "stopped"
                                       THEN Window(s.mem, s.csp) ELSE @]
    IN  IF s1.wait_status.tag # "Stopped" THEN s1
        ELSE
        LET s4 == ReadWords(s1, s1.csp, StackWords, f)
        IN  IF ~s4.ok THEN s4
            ELSE HandleBreakpoint([s4 EXCEPT !.stack = s4.val, !.val = <<>>], f, ovf)

\* fetch_state that refreshes the snapshot whatever the status is
FetchState_AnyStatus(s, raw, f, ovf) ==
    LET s0 == Call(s, "wait", 0) IN
    IF f = "wait" THEN Fail(s0, "Errno")
    ELSE
    LET s1 == [s0 EXCEPT !.wait_status = Wait(raw),
                         !.stopStack = IF raw.kind = "stopped"
                                       THEN Window(s.mem, s.csp) ELSE @]
        s2 == Call(s1, "getregs", 0)
    IN  IF ~Traceable(s2) \/ f = "getregs" THEN Fail(s2, "Errno")
        ELSE
        LET s3 == [s2 EXCEPT !.registers = [rip |-> s2.cpc, rsp |-> s2.csp]]
            s4 == ReadWords(s3, s3.registers.rsp, StackWords, f)
        IN  IF ~s4.ok THEN s4
            ELSE HandleBreakpoint([s4 EXCEPT !.stack = s4.val, !.val = <<>>], f, ovf)

\* fetch_state: raw is the status word the kernel hands to wait()
FetchState(s, raw, f, ovf) ==
    LET s0 == Call(s, "wait", 0) IN
    IF f = "wait" THEN Fail(s0, "Errno")
    ELSE
    LET s1 == [s0 EXCEPT !.wait_status = Wait(raw),
                         !.stopStack = IF raw.kind = "stopped"
                                       THEN Window(s.mem, s.csp) ELSE @]
    IN  IF s1.wait_status.tag # "Stopped" THEN s1
        ELSE
        LET s2 == Call(s1, "getregs", 0) IN
        IF ~Traceable(s2) \/ f = "getregs" THEN Fail(s2, "Errno")
        ELSE
        LET s3 == [s2 EXCEPT !.registers = [rip |-> s2.cpc, rsp |-> s2.csp]]
            s4 == ReadWords(s3, s3.registers.rsp, StackWords, f)
        IN  IF ~s4.ok THEN s4
            ELSE HandleBreakpoint([s4 EXCEPT !.stack = s4.val, !.val = <<>>], f, ovf)

\* the child after the kernel has run it to outcome o
Resume(s, o) == [s EXCEPT !.cpc = o.pc, !.cstate = ChildAfter(o.raw)]

\* step that drops the error of singlestep and goes on to wait
StepOp_NoErrorCheck(s, o, f, ovf) ==
    LET s0 == Call(s, "singlestep", 0) IN
    IF ~Traceable(s0) \/ f = "singlestep"
    THEN FetchState(s0, [kind |-> "other", val |-> s0.wait_status.val], f, ovf)
    ELSE FetchState(Resume(s0, o), o.raw, f, ovf)

\* step: o is what the single-stepped child does
StepOp(s, o, f, ovf) ==
    LET s0 == Call(s, "singlestep", 0) IN
    IF ~Traceable(s0) \/ f = "singlestep" THEN Fail(s0, "Errno")
    ELSE FetchState(Resume(s0, o), o.raw, f, ovf)

\* cont: o is what the continued child does
ContOp(s, o, f, ovf) ==
    LET s0 == Call(s, "cont", 0) IN
    IF ~Traceable(s0) \/ f = "cont" THEN Fail(s0, "Errno")
    ELSE FetchState(Resume(s0, o), o.raw, f, ovf)

\* breakpoint that saves the word it poked instead of the word it read
BreakpointOp_SavesPoked(s, addr, f) ==
    IF addr \in DOMAIN s.breakpoints THEN s
    ELSE
    LET s0 == Call(s, "peek", addr) IN
    IF ~PeekOk(s0, addr) \/ f = "peek" THEN Fail(s0, "Errno")
    ELSE
    LET data == PeekWord(s0.mem, addr)
        s1 == Call(s0, "poke", addr)
    IN  IF f = "poke" THEN Fail(s1, "Errno")
        ELSE [s1 EXCEPT !.mem = PokeWord(@, addr, TrapWord(data)),
                        !.breakpoints = With(@, addr, TrapWord(data)),
                        !.armed = With(@, addr, PeekWord(s.mem, addr))]

\* breakpoint without the early return for a known address
BreakpointOp_NoEarlyReturn(s, addr, f) ==
    LET s0 == Call(s, "peek", addr) IN
    IF ~PeekOk(s0, addr) \/ f = "peek" THEN Fail(s0, "Errno")
    ELSE
    LET data == PeekWord(s0.mem, addr)
        s1 == Call(s0, "poke", addr)
    IN  IF f = "poke" THEN Fail(s1, "Errno")
        ELSE [s1 EXCEPT !.mem = PokeWord(@, addr, TrapWord(data)),
                        !.breakpoints = With(@, addr, data),
                        !.armed = IF addr \in DOMAIN s.armed THEN @
                                  ELSE With(@, addr, PeekWord(s.mem, addr))]

\* breakpoint that records the entry before it pokes
BreakpointOp_InsertFirst(s, addr, f) ==
    IF addr \in DOMAIN s.breakpoints THEN s
    ELSE
    LET s0 == Call(s, "peek", addr) IN
    IF ~PeekOk(s0, addr) \/ f = "peek" THEN Fail(s0, "Errno")
    ELSE
    LET data == PeekWord(s0.mem, addr)
        s1 == Call([s0 EXCEPT !.breakpoints = With(@, addr, data),
                              !.armed = With(@, addr, PeekWord(s.mem, addr))],
                   "poke", addr)
    IN  IF f = "poke" THEN Fail(s1, "Errno")
        ELSE [s1 EXCEPT !.mem = PokeWord(@, addr, TrapWord(data))]

\* breakpoint
BreakpointOp(s, addr, f) ==
    IF addr \in DOMAIN s.breakpoints THEN s
    ELSE
    LET s0 == Call(s, "peek", addr) IN
    IF ~PeekOk(s0, addr) \/ f = "peek" THEN Fail(s0, "Errno")
    ELSE
    LET data == PeekWord(s0.mem, addr)
        s1 == Call(s0, "poke", addr)
    IN  IF f = "poke" THEN Fail(s1, "Errno")
        ELSE [s1 EXCEPT !.mem = PokeWord(@, addr, TrapWord(data)),
                        !.breakpoints = With(@, addr, data),
                        !.armed = With(@, addr, PeekWord(s.mem, addr))]

\* exit_status that reports the value of every terminal status
ExitStatus_AnyTerminal(ws) ==
    IF ws.tag \in {"Exited", "Signaled"} THEN <<"Some", ws.val>> ELSE <<"None">>

\* exit_status
ExitStatus(ws) == IF ws.tag = "Exited" THEN <<"Some", ws.val>> ELSE <<"None">>

\* usize::to_ne_bytes: the bytes of a word in memory order
ToNeBytes(w) == [i \in 1..W |-> w[i]]

\* the inner loop of read_bytes: push the bytes of one word from the j-th on,
\* leaving the loop when a push makes the length equal to size
RECURSIVE PushBytes(_, _, _, _)
PushBytes(bytes, wb, j, size) ==
    IF j > Len(wb) THEN bytes
    ELSE LET b1 == Append(bytes, wb[j]) IN
         IF Len(b1) = size THEN b1 ELSE PushBytes(b1, wb, j + 1, size)

\* the outer loop of read_bytes: i ranges over 0..(size / wordlen) + 1,
\* the upper end excluded
RECURSIVE ReadBytesFrom(_, _, _, _, _, _)
ReadBytesFrom(s, from, size, i, bytes, f) ==
    IF i >= (size \div W) + 1 THEN [s EXCEPT !.val = bytes]
    ELSE LET s1 == Call(s, "peek", from + W * i) IN
         IF ~PeekOk(s1, from + W * i) \/ f = "peek" THEN Fail(s1, "Errno")
         ELSE ReadBytesFrom(s1, from, size, i + 1,
                  PushBytes(bytes, ToNeBytes(PeekWord(s1.mem, from + W * i)), 1, size), f)

ReadBytesOp(s, from, size, f) == ReadBytesFrom(s, from, size, 0, <<>>, f)

---------------------------------------------------------------------------
\* The state machine

NoRun == [ev |-> "none", pc |-> 0, n |-> 0, at |-> 0, raw |-> <<>>]

Init ==
    /\ phase = "init"
    /\ registers = [rip |-> 0, rsp |-> 0]
    /\ stack = <<>>
    /\ wait_status = [tag |-> "Unknwon", val |-> 0]
    /\ breakpoints = <<>>
    /\ mem = <<>>
    /\ cpc = 0
    /\ csp = 0
    /\ cstate = "none"
    /\ forks = 0
    /\ childret = "none"
    /\ last = [op |-> "none", arg |-> <<>>, ok |-> TRUE, err |-> "", val |-> <<>>,
               calls |-> <<>>, ev |-> "none", n |-> 0, at |-> 0, keys0 |-> {},
               hit |-> <<>>, stop |-> 0, fault |-> "none"]
    /\ image = <<>>
    /\ stopStack = <<>>
    /\ armed = <<>>

\* the controller and the child after a handler, and the record of the call
Commit(s, op, arg, o) ==
    /\ phase' = s.phase
    /\ registers' = s.registers
    /\ stack' = s.stack
    /\ wait_status' = s.wait_status
    /\ breakpoints' = s.breakpoints
    /\ mem' = s.mem
    /\ cpc' = s.cpc
    /\ csp' = s.csp
    /\ cstate' = s.cstate
    /\ stopStack' = s.stopStack
    /\ armed' = s.armed
    /\ last' = [op |-> op, arg |-> arg, ok |-> s.ok, err |-> s.err, val |-> s.val,
                calls |-> s.calls, ev |-> o.ev, n |-> o.n, at |-> o.at,
                keys0 |-> DOMAIN breakpoints, hit |-> s.hit, stop |-> o.pc,
                fault |-> s.fault]

\* the status words the first wait() of spawn can be handed
SpawnRaws ==
    {[kind |-> "stopped", val |-> "SIGTRAP"], [kind |-> "signaled", val |-> "SIGKILL"],
     [kind |-> "continued", val |-> 0], [kind |-> "other", val |-> 0]}

\* spawn: the whole of Subordinate::spawn in the caller, and what the forked
\* copy of the caller does up to execvp
SpawnOp(cmd, toy, raw, f, ovf) ==
    IF f = "fork"
    THEN /\ phase' = "err"
         /\ last' = [last EXCEPT !.op = "spawn", !.arg = cmd, !.ok = FALSE, !.err = "Errno"]
         /\ UNCHANGED <<registers, stack, wait_status, breakpoints, mem, cpc, csp,
                        cstate, forks, childret, image, stopStack, armed>>
    ELSE
    /\ forks' = forks + 1
    /\ IF Execvp(cmd) # "Ok"
       THEN \* the forked copy returns execvp's error from spawn; the caller
            \* goes on to index cmd[0]
            /\ childret' = Execvp(cmd)
            /\ phase' = "panic"
            /\ last' = [last EXCEPT !.op = "spawn", !.arg = cmd, !.ok = FALSE, !.err = "panic"]
            /\ UNCHANGED <<registers, stack, wait_status, breakpoints, mem, cpc, csp,
                           cstate, image, stopStack, armed>>
       ELSE
       /\ childret' = "none"
       /\ image' = Pad(toy.code)
       /\ IF f = "open"
          THEN /\ phase' = "err"
               /\ mem' = Pad(toy.code) /\ cpc' = toy.entry /\ csp' = toy.sp
               /\ cstate' = ChildAfter(raw)
               /\ last' = [last EXCEPT !.op = "spawn", !.arg = cmd, !.ok = FALSE, !.err = "Io"]
               /\ UNCHANGED <<registers, stack, wait_status, breakpoints, stopStack, armed>>
          ELSE
          LET s0 == [Cur EXCEPT !.mem = Pad(toy.code), !.cpc = toy.entry, !.csp = toy.sp,
                                !.cstate = ChildAfter(raw),
                                !.wait_status = [tag |-> "Unknwon", val |-> 0],
                                !.registers = [rip |-> 0, rsp |-> 0],
                                !.stack = <<>>, !.breakpoints = <<>>]
              s1 == FetchState(s0, raw, f, ovf)
              s2 == IF s1.ok THEN [s1 EXCEPT !.phase = "live"]
                    ELSE IF s1.phase = "panic" THEN s1 ELSE [s1 EXCEPT !.phase = "err"]
          IN  Commit(s2, "spawn", cmd, NoRun)

Ovfs == {"wrap", "panic"}

Spawn ==
    /\ phase = "init"
    /\ \E cmd \in {<<>>, <<"toy">>}, toy \in Toys, raw \in SpawnRaws, ovf \in Ovfs :
          SpawnOp(cmd, toy, raw, "none", ovf)

Step ==
    /\ phase = "live"
    /\ \E o \in (IF cstate = "stopped" THEN StepOutcomes(mem, cpc) ELSE {NoRun}),
          ovf \in Ovfs :
          Commit(StepOp(Cur, o, "none", ovf), "step", <<>>, o)
    /\ UNCHANGED <<forks, childret, image>>

Cont ==
    /\ phase = "live"
    /\ \E o \in (IF cstate = "stopped" THEN ContOutcomes(mem, cpc) ELSE {NoRun}),
          ovf \in Ovfs :
          Commit(ContOp(Cur, o, "none", ovf), "cont", <<>>, o)
    /\ UNCHANGED <<forks, childret, image>>

Breakpoint ==
    /\ phase = "live"
    /\ \E addr \in 0..MaxBpAddr :
          /\ addr \in DOMAIN breakpoints \/ Cardinality(DOMAIN breakpoints) < MaxBps
          /\ Commit(BreakpointOp(Cur, addr, "none"), "breakpoint", addr, NoRun)
    /\ UNCHANGED <<forks, childret, image>>

\* the addresses read from: the first ones, and the last word of the memory
ReadFroms == (1..MaxFrom) \cup {MemLen - W + 1}

\* read_bytes, as the UI's instructions() calls it
ReadBytes ==
    /\ phase = "live"
    /\ \E from \in ReadFroms, size \in 0..MaxSize :
          Commit(ReadBytesOp(Cur, from, size, "none"), "read_bytes", <<from, size>>, NoRun)
    /\ UNCHANGED <<forks, childret, image>>

Next == Spawn \/ Step \/ Cont \/ Breakpoint

Spec == Init /\ [][Next]_vars

\* the memory inspection of a child with breakpoints planted
NextRead == Spawn \/ Breakpoint \/ ReadBytes

SpecRead == Init /\ [][NextRead]_vars

---------------------------------------------------------------------------
\* src/tui.rs: the break command.  A target is the sequence of its characters.

\* the characters targets are made of
Chars == {"0", "1", "2", "a", "f", "g", "+"}

\* the symbol table of the executable: name -> low_pc
Symbols ==
    (<<"m", "a", "i", "n">> :> 1) @@ (<<"f">> :> 2) @@ (<<"a", "d", "d">> :> 2)

\* the targets typed: the names of the table and every short word
Targets ==
    (DOMAIN Symbols) \cup UNION {[1..n -> Chars] : n \in 1..MaxTargetLen}

\* char::to_digit(16): the value of a base-16 digit, -1 for any other character
ToDigit(c) ==
    LET lower == <<"0", "1", "2", "3", "4", "5", "6", "7", "8", "9",
                   "a", "b", "c", "d", "e", "f">>
        upper == <<"A", "B", "C", "D", "E", "F">>
    IN  IF \E i \in 1..Len(lower) : lower[i] = c
        THEN (CHOOSE i \in 1..Len(lower) : lower[i] = c) - 1
        ELSE IF \E i \in 1..Len(upper) : upper[i] = c
        THEN (CHOOSE i \in 1..Len(upper) : upper[i] = c) + 9
        ELSE -1

\* the digits of str folded into a number, most significant first
RECURSIVE Fold16(_, _)
Fold16(str, acc) ==
    IF Len(str) = 0 THEN acc ELSE Fold16(Tail(str), acc * 16 + ToDigit(Head(str)))

\* usize::from_str_radix(str, 16): an optional + sign, then one digit or more
FromStrRadix16(str) ==
    LET digits == IF Len(str) > 0 /\ Head(str) = "+" THEN Tail(str) ELSE str
    IN  IF Len(digits) = 0 \/ \E i \in 1..Len(digits) : ToDigit(digits[i]) < 0
        THEN <<"Err">>
        ELSE <<"Ok", Fold16(digits, 0)>>

\* set_breakpoint(subordinate, target)
SetBreakpoint(s, target, f) ==
    LET parsed == FromStrRadix16(target) IN
    IF parsed[1] = "Ok" THEN BreakpointOp(s, parsed[2], f)
    ELSE IF target \in DOMAIN Symbols THEN BreakpointOp(s, Symbols[target], f)
    ELSE Fail(s, "Domain")

\* b <target> / break <target>
BreakCmd ==
    /\ phase = "live"
    /\ Cardinality(DOMAIN breakpoints) < MaxBps
    /\ \E target \in Targets :
          Commit(SetBreakpoint(Cur, target, "none"), "b", target, NoRun)
    /\ UNCHANGED <<forks, childret, image>>

\* break commands on a freshly spawned child
NextUi == Spawn \/ BreakCmd

SpecUi == Init /\ [][NextUi]_vars

---------------------------------------------------------------------------
\* the kernel requests of step, cont and breakpoint, any one of which a
\* kernel may refuse
StepFaults == {"singlestep", "wait", "getregs", "peek", "poke", "setregs"}

ContFaults == {"cont", "wait", "getregs", "peek", "poke", "setregs"}

BreakpointFaults == {"peek", "poke"}

\* the command whose kernel request f was refused: the UI hands the error to
\* its caller with ?, which ends the session
Refused(s) == [s EXCEPT !.phase = IF @ = "panic" THEN @ ELSE "err"]

StepFault ==
    /\ phase = "live"
    /\ \E o \in (IF cstate = "stopped" THEN StepOutcomes(mem, cpc) ELSE {NoRun}),
          ovf \in Ovfs, f \in StepFaults :
          LET s == StepOp([Cur EXCEPT !.fault = f], o, f, ovf)
          IN  ~s.ok /\ Commit(Refused(s), "step", <<>>, o)
    /\ UNCHANGED <<forks, childret, image>>

ContFault ==
    /\ phase = "live"
    /\ \E o \in (IF cstate = "stopped" THEN ContOutcomes(mem, cpc) ELSE {NoRun}),
          ovf \in Ovfs, f \in ContFaults :
          LET s == ContOp([Cur EXCEPT !.fault = f], o, f, ovf)
          IN  ~s.ok /\ Commit(Refused(s), "cont", <<>>, o)
    /\ UNCHANGED <<forks, childret, image>>

BreakpointFault ==
    /\ phase = "live"
    /\ \E addr \in 0..MaxBpAddr, f \in BreakpointFaults :
          LET s == BreakpointOp([Cur EXCEPT !.fault = f], addr, f)
          IN  ~s.ok /\ Commit(Refused(s), "breakpoint", addr, NoRun)
    /\ UNCHANGED <<forks, childret, image>>

\* the controller against a kernel that refuses requests
NextFault == Spawn \/ Step \/ Cont \/ Breakpoint \/ StepFault \/ ContFault \/ BreakpointFault

SpecFault == Init /\ [][NextFault]_vars

\* breakpoints set on a stepped child by a kernel that refuses requests
NextBreak == Spawn \/ Step \/ Breakpoint \/ BreakpointFault

SpecBreak == Init /\ [][NextBreak]_vars

---------------------------------------------------------------------------
\* Properties

Stepped == last.op \in {"step", "cont"} /\ last.ok

Terminal == wait_status.tag \in {"Exited", "Signaled"}

\* C1: for every address a that is a key of breakpoints, the byte at a in
\* the child's memory is the trap opcode 0xCC
C1_TrapAtEveryKey == \A a \in DOMAIN breakpoints : mem[a] = TRAP

\* C2: when a successful step or cont consumes a stop with ip - 1 = a, the
\* word at a in the child is then the word that peek(a) returned just before
\* the breakpoint(a) call that created the entry
C2_SaveRestore ==
    (Stepped /\ last.hit # <<>>) => PeekWord(mem, last.hit[1]) = last.hit[2]

\* C2 witness: an entry is consumed while another breakpoint, planted within
\* the same word after it, is still installed
C2_Witness ==
    /\ Stepped /\ last.hit # <<>>
    /\ \E b \in DOMAIN breakpoints : b > last.hit[1] /\ b < last.hit[1] + W
    /\ PeekWord(mem, last.hit[1]) = PeekWord(image, last.hit[1])

\* C3: a stop on a trap the debugger planted at a happens only while a is a
\* key; after it a is no longer a key and the original instruction is back
\* at a (so the trap at a cannot stop the child again unless breakpoint(a)
\* is called again)
C3_OneShot ==
    (Stepped /\ last.ev = "trap" /\ image[last.at] # TRAP) =>
        /\ last.at \in last.keys0
        /\ last.at \notin DOMAIN breakpoints
        /\ mem[last.at] = image[last.at]

\* C4: breakpoint(a) on an address that is already a key returns success,
\* issues no peek or poke, and leaves the map, the saved word (the word
\* peek saw before the trap was planted) and the child's memory as they were
C4_Idempotent ==
    [][(last'.op = "breakpoint" /\ last'.arg \in DOMAIN breakpoints) =>
          /\ last'.ok
          /\ last'.calls = <<>>
          /\ breakpoints' = breakpoints
          /\ breakpoints'[last'.arg] = armed'[last'.arg]
          /\ mem' = mem]_vars

\* C4 witness: breakpoint was called on an address that was already a key
C4_Witness == last.op = "breakpoint" /\ last.arg \in last.keys0

\* Original C5: after a successful step or cont that ends Stopped, the
\* cached rip is the child's program counter and the cached stack is 16
\* words equal to the child's memory at [sp, sp + 16 W)
C5_StackIsMemory ==
    (Stepped /\ wait_status.tag = "Stopped") =>
        /\ registers.rip = cpc
        /\ Len(stack) = StackWords
        /\ stack = Window(mem, registers.rsp)

\* the word written back by a consumed breakpoint lies clear of the window
HitClear ==
    \/ last.hit = <<>>
    \/ last.hit[1] + W <= registers.rsp
    \/ last.hit[1] >= registers.rsp + W * StackWords

\* C5 (amended): after a successful step or cont that ends Stopped, the
\* cached rip is the child's program counter (also after a breakpoint hit),
\* and the cached stack is 16 words equal to the child's memory at
\* [sp, sp + 16 W) as it was when the stop was observed; it equals the
\* memory as it is now unless the word a consumed breakpoint restored
\* overlaps that range
C5_Snapshot ==
    (Stepped /\ wait_status.tag = "Stopped") =>
        /\ registers.rip = cpc
        /\ registers.rsp = csp
        /\ Len(stack) = StackWords
        /\ stack = stopStack
        /\ HitClear => stack = Window(mem, registers.rsp)

\* C5 witness: a stop on a planted trap was consumed, rip rewound and written
\* back, with the stack clear of the breakpoint
C5_Witness ==
    /\ Stepped /\ wait_status.tag = "Stopped"
    /\ last.ev = "trap" /\ last.hit # <<>> /\ HitClear
    /\ registers.rip = last.at /\ cpc = last.at

\* C6: after a successful step either one instruction of the child's program
\* has retired and stays retired, or the child is in a terminal state
C6_StepRetiresOne ==
    (last.op = "step" /\ last.ok) =>
        \/ Terminal
        \/ /\ last.n = 1
           /\ ~(last.ev = "trap" /\ image[last.at] # TRAP)
           /\ last.hit = <<>>

\* the cache is the child as of its most recent stop, and the child is stopped
Reflects ==
    /\ registers.rip = cpc
    /\ registers.rsp = csp
    /\ Len(stack) = StackWords
    /\ stack = stopStack
    /\ cstate = "stopped"

C8_ExitStatus ==
    /\ wait_status.tag = "Exited" => ExitStatus(wait_status) = <<"Some", wait_status.val>>
    /\ wait_status.tag # "Exited" => ExitStatus(wait_status) = <<"None">>
    /\ ExitStatus(wait_status)[1] = "Some" <=> cstate = "exited"

\* C8 witness: the child exited with a non-zero code
C8_Witness == wait_status.tag = "Exited" /\ wait_status.val # 0

\* C9: spawn with an empty argv returns a domain error to its caller, creates
\* no process and does not abort the caller
C9_EmptyArgv ==
    (last.op = "spawn" /\ Len(last.arg) = 0) =>
        /\ last.err = "Domain"
        /\ forks = 0
        /\ phase # "panic"

\* the bytes of the child's memory at [from, from + size)
MemBytes(from, size) == [i \in 1..size |-> mem[from + i - 1]]

\* C10: a successful read_bytes(from, size) returns exactly size bytes, the
\* child's memory at [from, from + size)
C10_ReadBytes ==
    (last.op = "read_bytes" /\ last.ok) =>
        /\ Len(last.val) = last.arg[2]
        /\ last.val = MemBytes(last.arg[1], last.arg[2])

\* C11: whenever step() or cont() returns an error (of singlestep/cont,
\* wait, getregs, peek, poke or setregs), the breakpoints map, the cached
\* registers and the cached stack are exactly as before the call
C11_NoPartialState ==
    [][(last'.op \in {"step", "cont"} /\ ~last'.ok /\ last'.err = "Errno") =>
          /\ breakpoints' = breakpoints
          /\ registers' = registers
          /\ stack' = stack]_vars

\* the kernel requests named in ns among the requests c of a call
Requests(c, ns) == {i \in 1..Len(c) : c[i][1] \in ns}

\* C12: when the wait() of fetch_state returns a status other than Stopped
\* (Exited, Signaled, Continued, Unknown), fetch_state changes wait_status
\* only: registers, stack and breakpoints are as before, and no getregs,
\* peek, poke or setregs is issued
C12_NonStoppedFrame ==
    [][(/\ last'.op \in {"spawn", "step", "cont"}
        /\ Requests(last'.calls, {"wait"}) # {}
        /\ wait_status'.tag # "Stopped") =>
          /\ registers' = registers
          /\ stack' = stack
          /\ breakpoints' = breakpoints
          /\ Requests(last'.calls, {"getregs", "peek", "poke", "setregs"}) = {}]_vars

C12_Witness ==
    /\ last.op \in {"step", "cont"}
    /\ Requests(last.calls, {"wait"}) # {}
    /\ wait_status.tag \in {"Exited", "Continued"}
    /\ DOMAIN breakpoints # {}
    /\ Len(stack) = StackWords
    /\ registers.rip # cpc

\* C13: on a stop where ip - 1 is not a key of breakpoints, handle_breakpoint
\* leaves the stop alone: the map, the cached registers (ip not rewound),
\* the child's memory and the child's registers are unchanged, and no poke
\* or setregs is issued
C13_NoKeyNoChange ==
    [][(/\ last'.op \in {"step", "cont"}
        /\ Requests(last'.calls, {"wait"}) # {}
        /\ wait_status'.tag = "Stopped"
        /\ last'.stop - 1 \notin DOMAIN breakpoints) =>
          /\ breakpoints' = breakpoints
          /\ registers'.rip = last'.stop
          /\ cpc' = last'.stop
          /\ csp' = csp
          /\ mem' = mem
          /\ last'.hit = <<>>
          /\ Requests(last'.calls, {"poke", "setregs"}) = {}]_vars

C13_Witness ==
    /\ Stepped
    /\ wait_status.tag = "Stopped"
    /\ last.stop - 1 \notin last.keys0
    /\ last.stop \in last.keys0
    /\ last.stop \in DOMAIN breakpoints
    /\ registers.rip = last.stop

\* C14: if the peek or the poke inside breakpoint(addr) fails, breakpoint
\* returns that error, adds no entry (the map is unchanged) and leaves the
\* child's memory unmodified
C14_FailedBreakpoint ==
    [][(/\ last'.op = "breakpoint"
        /\ last'.arg \notin DOMAIN breakpoints
        /\ (last'.fault \in BreakpointFaults \/ ~PeekOk(Cur, last'.arg))) =>
          /\ ~last'.ok
          /\ last'.err = "Errno"
          /\ breakpoints' = breakpoints
          /\ mem' = mem]_vars

C14_Witness ==
    /\ last.op = "breakpoint"
    /\ last.fault = "poke"
    /\ ~last.ok
    /\ Requests(last.calls, {"poke"}) # {}
    /\ DOMAIN breakpoints # {}
    /\ last.arg \notin DOMAIN breakpoints
    /\ mem[last.arg] # TRAP

\* the number of whole words that cover size bytes
CeilWords(size) == (size + W - 1) \div W

\* C15: read_bytes(from, size) performs exactly ceil(size / W) peeks, at
\* from, from + W, ...: it reads no word at or beyond from + ceil(size / W) * W
\* and does not fail when all the words of the requested range are readable
C15_ExactPeeks ==
    (last.op = "read_bytes") =>
        LET from == last.arg[1]
            n == CeilWords(last.arg[2])
        IN  /\ last.ok =>
                  last.calls = [i \in 1..n |-> <<"peek", from + W * (i - 1)>>]
            /\ \A i \in 1..Len(last.calls) : last.calls[i][2] < from + n * W
            /\ (cstate = "stopped" /\ from + n * W - 1 <= Len(mem)) => last.ok

\* a base-16 string: one hexadecimal digit or more
IsHex(target) == \A i \in 1..Len(target) : ToDigit(target[i]) >= 0

\* the break command installed a breakpoint at addr
InstalledAt(addr) ==
    /\ last.ok
    /\ DOMAIN breakpoints = last.keys0 \cup {addr}
    /\ addr \notin last.keys0 => last.calls = <<<<"peek", addr>>, <<"poke", addr>>>>

\* C16: on a stopped child, `b <name>` with a name of the symbol table
\* installs a breakpoint at the symbol's low_pc, `b <hex-addr>` with a
\* base-16 string installs one at that address, and a target that is
\* neither returns a domain error and installs nothing
C16_BreakTargets ==
    (last.op = "b" /\ cstate = "stopped") =>
        /\ last.arg \in DOMAIN Symbols => InstalledAt(Symbols[last.arg])
        /\ (IsHex(last.arg) /\ Mapped(mem, Fold16(last.arg, 0) + W - 1)
               /\ Fold16(last.arg, 0) > 0) =>
              InstalledAt(Fold16(last.arg, 0))
        /\ (last.arg \notin DOMAIN Symbols /\ ~IsHex(last.arg)) =>
              /\ ~last.ok
              /\ last.err = "Domain"
              /\ breakpoints = <<>> \/ DOMAIN breakpoints = last.keys0
              /\ last.calls = <<>>

\* C17: whenever the breakpoints map is empty, the child's memory equals
\* its contents at spawn (the child never writes its code)
C17_PristineWhenEmpty ==
    (phase = "live" /\ DOMAIN breakpoints = {}) => mem = image

\* C18: handle_breakpoint consumes an entry a (and rewinds the pc to a) only
\* when the child has just executed the trap byte at a
C18_ConsumedOnTrapOnly ==
    (Stepped /\ last.hit # <<>>) => (last.ev = "trap" /\ last.at = last.hit[1])

\* C19: handle_breakpoint returns at every stop, the stop at ip = 0
\* included: computing ip - 1 never aborts the debugger
C19_NoUnderflow ==
    (last.op \in {"step", "cont"}) => (phase # "panic" /\ last.err # "panic")

\* C20: once wait_status is Exited or Signaled, every further step() or
\* cont() returns an Errno error without calling wait, and leaves
\* wait_status, hence exit_status(), as it was
C20_TerminalAbsorbs ==
    [][(Terminal /\ last'.op \in {"step", "cont"}) =>
          /\ ~last'.ok
          /\ last'.err = "Errno"
          /\ Requests(last'.calls, {"wait"}) = {}
          /\ wait_status' = wait_status
          /\ ExitStatus(wait_status') = ExitStatus(wait_status)]_vars

C20_Witness ==
    /\ last.op \in {"step", "cont"}
    /\ ~last.ok
    /\ last.calls \in {<<<<"singlestep", 0>>>>, <<<<"cont", 0>>>>}
    /\ wait_status.tag = "Exited"
    /\ ExitStatus(wait_status) = <<"Some", MaxExit>>

====
